---- MODULE Spec2Model ----
(***************************************************************************)
(* ChessGrid: the game-session server (server.js, kept here as             *)
(* src/unnamed/part_002).  The state is the in-memory map `games`, the     *)
(* JSON file data/games.json (`disk`), the wall clock and the uuid source; *)
(* every HTTP handler is one action.  chess.js, the rules oracle, is not   *)
(* part of the repository: it is modelled by a small two-piece board game  *)
(* that has what the handlers use of it (legal and illegal moves, a side   *)
(* to move, checkmate, a draw by move count, fen()/load()).                *)
(* A player's display name and joinedAt and a game's createdAt are left    *)
(* out: no handler reads them back.  updatedAt is kept.                    *)
(***************************************************************************)
EXTENDS Integers, Sequences, FiniteSets, TLC

\* ------------------------------------------------------------------ bounds
\* Date.now() is read at most MaxClock times in a run.
MaxClock == 4
\* uuidv4() issues at most MaxTokens player tokens; requests present 0..MaxTokens.
MaxTokens == 3
\* No game holds more than MaxMoves moves in moveHistory.
MaxMoves == 5

\* ------------------------------------------------------------ input domains
GameIds == {"g1"}
Fids == {7}
Squares == 1..4
\* A square as a request carries it: 0 is an absent field, 5 is off the board.
SquareInputs == 0..5
\* The (from, to) pairs requests are drawn from: every one-step move, a
\* two-step move (e2-e5 style), an absent field, and a malformed square.
MoveInputs ==
  {<<f, t>> \in Squares \X Squares : t = f + 1 \/ t = f - 1}
    \cup {<<1, 3>>, <<0, 2>>, <<5, 4>>}
TokenInputs == 0..MaxTokens
ColorInputs == {"white", "black", "random", "green"}
ButtonInputs == 0..4

\* ------------------------------------------------------- the rules oracle
\* new Chess(): white's piece on square 1, black's on square 4, white to move.
InitialPosition == [w |-> 1, b |-> 4, turn |-> "w", half |-> 0]

\* The number of half-moves after which the oracle reports a draw.
DrawHalfMoves == 4

\* chess.get(square): the colour of the piece on the square, or "none".
pieceAt(pos, sq) ==
  IF sq = pos.w THEN "w" ELSE IF sq = pos.b THEN "b" ELSE "none"

\* Whether chess.move({from, to}) is accepted: the mover's own piece steps
\* one square onto an empty square of the board.
legalMove(pos, from, to) ==
  /\ from \in Squares
  /\ to \in Squares
  /\ pieceAt(pos, from) = pos.turn
  /\ (to = from + 1 \/ to = from - 1)
  /\ pieceAt(pos, to) = "none"

\* The position chess.move leaves.
positionAfter(pos, from, to) ==
  [w |-> IF pos.turn = "w" THEN to ELSE pos.w,
   b |-> IF pos.turn = "b" THEN to ELSE pos.b,
   turn |-> IF pos.turn = "w" THEN "b" ELSE "w",
   half |-> pos.half + 1]

\* move.san: the notation of an accepted move.
sanOf(from, to) == 10 * from + to

\* chess.isCheckmate(): the side to move has no move.
isCheckmate(pos) ==
  \A f \in Squares, t \in Squares : ~legalMove(pos, f, t)

\* chess.isDraw(): the move-count rule.
isDraw(pos) == ~isCheckmate(pos) /\ pos.half >= DrawHalfMoves

\* chess.fen(): the position as text, here a 4-tuple.
fen(pos) == <<pos.w, pos.b, pos.turn, pos.half>>

\* Whether chess.load(fen) accepts the text.
validFen(f) ==
  /\ Len(f) = 4
  /\ f[1] \in Squares /\ f[2] \in Squares /\ f[1] # f[2]
  /\ f[3] \in {"w", "b"}
  /\ f[4] \in Nat

\* chess.load(fen) on a valid text.
loadFen(f) == [w |-> f[1], b |-> f[2], turn |-> f[3], half |-> f[4]]

\* A Chess object: the position and the moves made on this object.
newChess == [pos |-> InitialPosition, history |-> <<>>]

\* chess.move on an accepted move.
chessMove(chess, from, to) ==
  [pos |-> positionAfter(chess.pos, from, to),
   history |-> Append(chess.history, sanOf(from, to))]

\* ------------------------------------------------------------------ state
VARIABLES
  games,      \* the Map gameId -> game (a function on the ids it holds)
  disk,       \* data/games.json: gameId -> serialized game
  now,        \* the last value Date.now() returned
  nextToken,  \* the next value uuidv4() returns for a player token
  req,        \* the request just handled: its route, gameId and playerToken
  res,        \* the response just sent
  calls       \* the POST /move requests that clients have sent, each with
              \* the place its handler has come to (used where the handler
              \* is followed statement by statement; elsewhere no call is
              \* ever under way)

vars == <<games, disk, now, nextToken, req, res, calls>>

\* null, for a player slot and for lastMove.
NoPlayer == [id |-> <<"none", 0, "none">>, token |-> 0, source |-> "none"]
NoMove == [from |-> 0, to |-> 0]

createPlayer(id, token, source) ==
  [id |-> id, token |-> token, source |-> source]

\* The player as the read paths show it: every field but the token.
sanitizePlayer(player) ==
  IF player = NoPlayer
    THEN [id |-> NoPlayer.id, source |-> "none"]
    ELSE [id |-> player.id, source |-> player.source]

\* resetGameState with a slip: the board is not replaced.
resetGameStateKeepsBoard(game) ==
  [game EXCEPT !.currentPlayer = "w",
               !.lastMove = NoMove,
               !.status = "waiting",
               !.moveHistory = <<>>]

\* resetGameState with a slip: the turn field is not set back to white.
resetGameStateKeepsTurn(game) ==
  [game EXCEPT !.chess = newChess,
               !.lastMove = NoMove,
               !.status = "waiting",
               !.moveHistory = <<>>]

resetGameState(game) ==
  [game EXCEPT !.chess = newChess,
               !.currentPlayer = "w",
               !.lastMove = NoMove,
               !.status = "waiting",
               !.moveHistory = <<>>]

createNewGame(t) ==
  [chess |-> newChess,
   whitePlayer |-> NoPlayer,
   blackPlayer |-> NoPlayer,
   currentPlayer |-> "w",
   lastMove |-> NoMove,
   status |-> "waiting",
   moveHistory |-> <<>>,
   updatedAt |-> t]

\* games.has(gameId)
has(gs, g) == g \in DOMAIN gs

\* set with a slip: the map is replaced by one that holds the new game alone.
setAlone(gs, g, game) == [x \in {g} |-> game]

\* games.set(gameId, game)
set(gs, g, game) ==
  [x \in DOMAIN gs \cup {g} |-> IF x = g THEN game ELSE gs[x]]

\* getOrCreateGame with a slip: a new game is put under the id every time.
getOrCreateGameAlwaysNew(gs, g, t) == set(gs, g, createNewGame(t))

\* The map getOrCreateGame leaves (the game it returns is the map's entry).
getOrCreateGame(gs, g, t) ==
  IF ~has(gs, g) THEN set(gs, g, createNewGame(t)) ELSE gs

serializeGame(game) ==
  [whitePlayer |-> game.whitePlayer,
   blackPlayer |-> game.blackPlayer,
   currentPlayer |-> game.currentPlayer,
   lastMove |-> game.lastMove,
   status |-> game.status,
   moveHistory |-> game.moveHistory,
   updatedAt |-> game.updatedAt,
   fen |-> fen(game.chess.pos)]

\* The file persistGamesToDisk writes.
persistGamesToDisk(gs) == [g \in DOMAIN gs |-> serializeGame(gs[g])]

\* The file after a call of persistGamesToDisk: written anew, or, when
\* mkdirSync or writeFileSync throws (written = FALSE), as it was.
fileAfterPersist(gs, d, written) ==
  IF written THEN persistGamesToDisk(gs) ELSE d

\* persistThrows with a slip: the error of a failed write is thrown on.
persistRethrows(written) == ~written

\* Whether a call of persistGamesToDisk throws to the handler that made it:
\* never, the catch logs the error and returns.
persistThrows(written) == FALSE

\* loadGame with a slip: the board is not loaded from the record.
loadGameFreshBoard(data) ==
  [chess |-> newChess,
   whitePlayer |-> data.whitePlayer,
   blackPlayer |-> data.blackPlayer,
   currentPlayer |-> data.currentPlayer,
   lastMove |-> data.lastMove,
   status |-> data.status,
   moveHistory |-> data.moveHistory,
   updatedAt |-> data.updatedAt]

\* The game loadGamesFromDisk builds from one record of the file.
loadGame(data) ==
  [chess |-> IF validFen(data.fen)
               THEN [pos |-> loadFen(data.fen), history |-> <<>>]
               ELSE newChess,
   whitePlayer |-> data.whitePlayer,
   blackPlayer |-> data.blackPlayer,
   currentPlayer |-> data.currentPlayer,
   lastMove |-> data.lastMove,
   status |-> data.status,
   moveHistory |-> data.moveHistory,
   updatedAt |-> data.updatedAt]

\* The map a starting process holds after loadGamesFromDisk.
loadGamesFromDisk(d) == [g \in DOMAIN d |-> loadGame(d[g])]

\* assignPlayer with a slip: the status is set anew on a finished game too.
assignPlayerAnyStatus(game, color, player, t) ==
  LET seated == IF color = "white"
                  THEN [game EXCEPT !.whitePlayer = player]
                  ELSE [game EXCEPT !.blackPlayer = player]
      status == IF seated.whitePlayer # NoPlayer /\ seated.blackPlayer # NoPlayer
                  THEN "active" ELSE "waiting"
  IN [seated EXCEPT !.status = status, !.updatedAt = t]

assignPlayer(game, color, player, t) ==
  LET seated == IF color = "white"
                  THEN [game EXCEPT !.whitePlayer = player]
                  ELSE [game EXCEPT !.blackPlayer = player]
      status == IF seated.status # "finished"
                  THEN (IF seated.whitePlayer # NoPlayer /\ seated.blackPlayer # NoPlayer
                          THEN "active" ELSE "waiting")
                  ELSE seated.status
  IN [seated EXCEPT !.status = status, !.updatedAt = t]

getPlayerDisplay(game, color) ==
  IF color = "white" THEN sanitizePlayer(game.whitePlayer)
                     ELSE sanitizePlayer(game.blackPlayer)

\* The empty map: no games.json, no game in memory.
NoGames == [g \in {} |-> NoMove]

NoRequest == [op |-> "none", gameId |-> "none", playerToken |-> 0]
NoResponse == [op |-> "none", gameId |-> "none", code |-> "none", body |-> <<>>]

\* The POST /move requests followed statement by statement.
CallIds == {1, 2}

\* A call no client has sent yet.
NoCall ==
  [pc |-> "none", gameId |-> "none", from |-> 0, to |-> 0, playerToken |-> 0,
   code |-> "none", seen |-> createNewGame(0)]

NoCalls == [c \in CallIds |-> NoCall]

Init ==
  /\ games = NoGames
  /\ disk = NoGames
  /\ now = 0
  /\ nextToken = 1
  /\ req = NoRequest
  /\ res = NoResponse
  /\ calls = NoCalls

\* ------------------------------------------------------------- POST /move
playerOf(game, color) ==
  IF color = "white" THEN game.whitePlayer ELSE game.blackPlayer

\* hasWebPlayers with a slip: any seated player counts, token or not.
hasWebPlayersAnySeat(game) ==
  game.whitePlayer # NoPlayer \/ game.blackPlayer # NoPlayer

\* hasWebPlayers: some player of the game holds a token.
hasWebPlayers(game) ==
  game.whitePlayer.token # 0 \/ game.blackPlayer.token # 0

\* allowedColors with a slip: black is looked at only when white does not match.
allowedColorsFirstMatch(game, playerToken) ==
  IF game.whitePlayer.token = playerToken THEN {"white"}
  ELSE IF game.blackPlayer.token = playerToken THEN {"black"}
  ELSE {}

\* allowedColors: the sides whose player holds the presented token.
allowedColors(game, playerToken) ==
  {c \in {"white", "black"} : playerOf(game, c).token = playerToken}

currentColor(game) == IF game.currentPlayer = "w" THEN "white" ELSE "black"

\* authorizeMove with a slip: a request that presents no token is let through.
authorizeMoveTokenOptional(game, playerToken) ==
  IF ~hasWebPlayers(game) \/ playerToken = 0 THEN "ok"
  ELSE IF allowedColors(game, playerToken) = {} THEN "InvalidToken"
  ELSE IF currentColor(game) \notin allowedColors(game, playerToken) THEN "NotYourTurn"
  ELSE "ok"

\* authorizeMove with a slip: any token of the game may move, whose turn it is or not.
authorizeMoveAnySeat(game, playerToken) ==
  IF ~hasWebPlayers(game) THEN "ok"
  ELSE IF playerToken = 0 THEN "MissingToken"
  ELSE IF allowedColors(game, playerToken) = {} THEN "InvalidToken"
  ELSE "ok"

\* The token checks of POST /move: "ok", or the error the handler returns.
authorizeMove(game, playerToken) ==
  IF ~hasWebPlayers(game) THEN "ok"
  ELSE IF playerToken = 0 THEN "MissingToken"
  ELSE IF allowedColors(game, playerToken) = {} THEN "InvalidToken"
  ELSE IF currentColor(game) \notin allowedColors(game, playerToken) THEN "NotYourTurn"
  ELSE "ok"

\* commitMove with a slip: the turn field is not taken from the new position.
commitMoveStaleTurn(game, from, to) ==
  LET chess == chessMove(game.chess, from, to)
  IN [game EXCEPT
        !.chess = chess,
        !.lastMove = [from |-> from, to |-> to],
        !.moveHistory = Append(game.moveHistory, sanOf(from, to)),
        !.status = IF isCheckmate(chess.pos) \/ isDraw(chess.pos)
                     THEN "finished" ELSE game.status]

\* commitMove with a slip: checkmate and draw are not looked at.
commitMoveKeepsStatus(game, from, to) ==
  LET chess == chessMove(game.chess, from, to)
  IN [game EXCEPT
        !.chess = chess,
        !.currentPlayer = chess.pos.turn,
        !.lastMove = [from |-> from, to |-> to],
        !.moveHistory = Append(game.moveHistory, sanOf(from, to))]

\* commitMove with a slip: the history is replaced by the new notation alone.
commitMoveTruncates(game, from, to) ==
  LET chess == chessMove(game.chess, from, to)
  IN [game EXCEPT
        !.chess = chess,
        !.currentPlayer = chess.pos.turn,
        !.lastMove = [from |-> from, to |-> to],
        !.moveHistory = <<sanOf(from, to)>>,
        !.status = IF isCheckmate(chess.pos) \/ isDraw(chess.pos)
                     THEN "finished" ELSE game.status]

\* The game after POST /move has applied an accepted move.
commitMove(game, from, to) ==
  LET chess == chessMove(game.chess, from, to)
  IN [game EXCEPT
        !.chess = chess,
        !.currentPlayer = chess.pos.turn,
        !.lastMove = [from |-> from, to |-> to],
        !.moveHistory = Append(game.moveHistory, sanOf(from, to)),
        !.status = IF isCheckmate(chess.pos) \/ isDraw(chess.pos)
                     THEN "finished" ELSE game.status]

\* moveOutcome with a slip: the oracle's refusal is not looked at.
moveOutcomeUnchecked(gs, g, from, to, playerToken) ==
  IF from = 0 \/ to = 0 THEN "MissingFields"
  ELSE IF ~has(gs, g) THEN "NotFound"
  ELSE IF authorizeMove(gs[g], playerToken) # "ok" THEN authorizeMove(gs[g], playerToken)
  ELSE "ok"

\* moveOutcome with a slip: a game that is not in the map is answered as an
\* illegal move.
moveOutcomeMissingIsIllegal(gs, g, from, to, playerToken) ==
  IF from = 0 \/ to = 0 THEN "MissingFields"
  ELSE IF ~has(gs, g) THEN "IllegalMove"
  ELSE IF authorizeMove(gs[g], playerToken) # "ok" THEN authorizeMove(gs[g], playerToken)
  ELSE IF ~legalMove(gs[g].chess.pos, from, to) THEN "IllegalMove"
  ELSE "ok"

\* What POST /move answers: the first check that fails, or "ok".
moveOutcome(gs, g, from, to, playerToken) ==
  IF from = 0 \/ to = 0 THEN "MissingFields"
  ELSE IF ~has(gs, g) THEN "NotFound"
  ELSE IF authorizeMove(gs[g], playerToken) # "ok" THEN authorizeMove(gs[g], playerToken)
  ELSE IF ~legalMove(gs[g].chess.pos, from, to) THEN "IllegalMove"
  ELSE "ok"

\* The model records at most MaxMoves moves per game.
canRecord(game) ==
  Len(game.moveHistory) < MaxMoves /\ game.chess.pos.half < MaxMoves

Reply(op, g, code, body) ==
  res' = [op |-> op, gameId |-> g, code |-> code, body |-> body]

\* The answer of a handler whose call of persistGamesToDisk threw: the
\* framework's 500.
ReplyAfterPersist(op, g, written, body) ==
  IF persistThrows(written)
    THEN Reply(op, g, "ServerError", <<>>)
    ELSE Reply(op, g, "ok", body)

\* POST /move; written tells whether the file write of persistGamesToDisk
\* goes through.
PostMoveWriting(g, from, to, playerToken, written) ==
  LET code == moveOutcome(games, g, from, to, playerToken) IN
  /\ req' = [op |-> "move", gameId |-> g, playerToken |-> playerToken]
  /\ UNCHANGED calls
  /\ IF code = "ok"
       THEN LET game == commitMove(games[g], from, to) IN
            /\ canRecord(games[g])
            /\ games' = set(games, g, game)
            /\ disk' = fileAfterPersist(games', disk, written)
            /\ ReplyAfterPersist("move", g, written,
                     [move |-> [from |-> from, to |-> to, san |-> sanOf(from, to)],
                      fen |-> fen(game.chess.pos),
                      status |-> game.status,
                      moveHistory |-> game.moveHistory])
       ELSE /\ Reply("move", g, code, <<>>)
            /\ UNCHANGED <<games, disk>>
  /\ UNCHANGED <<now, nextToken>>

PostMove(g, from, to, playerToken) == PostMoveWriting(g, from, to, playerToken, TRUE)

\* ------------------------------------------------------- GET /game/:gameId
publicView(game) ==
  [fen |-> fen(game.chess.pos),
   currentPlayer |-> game.currentPlayer,
   status |-> game.status,
   isCheckmate |-> isCheckmate(game.chess.pos),
   isDraw |-> isDraw(game.chess.pos),
   moveHistory |-> game.moveHistory,
   lastMove |-> game.lastMove,
   players |-> [white |-> getPlayerDisplay(game, "white"),
                black |-> getPlayerDisplay(game, "black")],
   availableColors |-> [white |-> game.whitePlayer = NoPlayer,
                        black |-> game.blackPlayer = NoPlayer]]

GetGame(g) ==
  /\ req' = [op |-> "inspect", gameId |-> g, playerToken |-> 0]
  /\ UNCHANGED calls
  /\ IF ~has(games, g)
       THEN Reply("inspect", g, "NotFound", <<>>)
       ELSE Reply("inspect", g, "ok", publicView(games[g]))
  /\ UNCHANGED <<games, disk, now, nextToken>>

\* -------------------------------------------------------------- GET /games
\* The list: for every game its status, turn and number of moves.
gamesList(gs) ==
  [g \in DOMAIN gs |-> [status |-> gs[g].status,
                        currentPlayer |-> gs[g].currentPlayer,
                        moveCount |-> Len(gs[g].moveHistory)]]

GetGames ==
  /\ req' = [op |-> "games", gameId |-> "none", playerToken |-> 0]
  /\ UNCHANGED calls
  /\ Reply("games", "none", "ok", gamesList(games))
  /\ UNCHANGED <<games, disk, now, nextToken>>

\* -------------------------------------------------- GET /game/:gameId/pgn
\* chess.pgn(): the moves made on this Chess object.
pgn(chess) == chess.history

GetPgn(g) ==
  /\ req' = [op |-> "pgn", gameId |-> g, playerToken |-> 0]
  /\ UNCHANGED calls
  /\ IF ~has(games, g)
       THEN Reply("pgn", g, "NotFound", <<>>)
       ELSE Reply("pgn", g, "ok", pgn(games[g].chess))
  /\ UNCHANGED <<games, disk, now, nextToken>>

\* ---------------------------------------- GET /game/:gameId/moves/:square
\* getValidMoves: the squares the piece on the square may move to.
getValidMoves(chess, square) ==
  {to \in Squares : legalMove(chess.pos, square, to)}

GetMoves(g, square) ==
  /\ req' = [op |-> "moves", gameId |-> g, playerToken |-> 0]
  /\ UNCHANGED calls
  /\ IF ~has(games, g)
       THEN Reply("moves", g, "NotFound", <<>>)
       ELSE Reply("moves", g, "ok",
                  [square |-> square,
                   validMoves |-> getValidMoves(games[g].chess, square)])
  /\ UNCHANGED <<games, disk, now, nextToken>>

\* --------------------------------------------------------- POST /api/games
PostApiGamesWriting(g, written) ==
  /\ ~has(games, g)
  /\ now < MaxClock
  /\ now' = now + 1
  /\ req' = [op |-> "create", gameId |-> g, playerToken |-> 0]
  /\ UNCHANGED calls
  /\ games' = set(games, g, createNewGame(now'))
  /\ disk' = fileAfterPersist(games', disk, written)
  /\ ReplyAfterPersist("create", g, written, <<>>)
  /\ UNCHANGED nextToken

PostApiGames(g) == PostApiGamesWriting(g, TRUE)

\* ------------------------------------------------ POST /api/games/:id/join
openColors(game) ==
  {c \in {"white", "black"} : playerOf(game, c) = NoPlayer}

\* joinRefusal with a slip: the colour choice is not validated.
joinRefusalAnyColor(gs, g, color) ==
  IF ~has(gs, g) THEN "NotFound"
  ELSE IF openColors(gs[g]) = {} THEN "GameFull"
  ELSE "ok"

\* What the join handler answers before it picks a seat.
joinRefusal(gs, g, color) ==
  IF ~has(gs, g) THEN "NotFound"
  ELSE IF color \notin {"white", "black", "random"} THEN "SeatInvalid"
  ELSE IF openColors(gs[g]) = {} THEN "GameFull"
  ELSE "ok"

\* The seats the handler may pick: the asked one, or any open one for "random".
joinTargets(game, color) ==
  IF color = "random" THEN openColors(game) ELSE {color}

PostJoinWriting(g, color, written) ==
  LET refusal == joinRefusal(games, g, color) IN
  /\ req' = [op |-> "join", gameId |-> g, playerToken |-> 0]
  /\ UNCHANGED calls
  /\ IF refusal # "ok"
       THEN /\ Reply("join", g, refusal, <<>>)
            /\ UNCHANGED <<games, disk, now, nextToken>>
       ELSE \E targetColor \in joinTargets(games[g], color) :
              IF playerOf(games[g], targetColor) # NoPlayer
                THEN /\ Reply("join", g, "SeatTaken", <<>>)
                     /\ UNCHANGED <<games, disk, now, nextToken>>
                ELSE /\ now < MaxClock
                     /\ nextToken <= MaxTokens
                     /\ now' = now + 1
                     /\ nextToken' = nextToken + 1
                     /\ LET token == nextToken
                            player == createPlayer(<<"web", token, targetColor>>,
                                                   token, "web")
                        IN /\ games' = set(games, g,
                                           assignPlayer(games[g], targetColor, player, now'))
                           /\ disk' = fileAfterPersist(games', disk, written)
                           /\ ReplyAfterPersist("join", g, written,
                                    [color |-> targetColor, token |-> token,
                                     player |-> sanitizePlayer(player)])

PostJoin(g, color) == PostJoinWriting(g, color, TRUE)

\* ------------------------------------------------ POST /api/games/:id/solo
\* soloGame with a slip: a seat that holds a player keeps it; the new token
\* is given to the free seats only.
soloGameKeepsSeats(game, token, t) ==
  LET whitePlayer == IF game.whitePlayer # NoPlayer THEN game.whitePlayer
                     ELSE createPlayer(<<"web", token, "white">>, token, "web")
      blackPlayer == IF game.blackPlayer # NoPlayer THEN game.blackPlayer
                     ELSE createPlayer(<<"web", token, "black">>, token, "web")
      seated == assignPlayer(assignPlayer(resetGameState(game), "white", whitePlayer, t),
                             "black", blackPlayer, t)
  IN [seated EXCEPT !.status = "active"]

\* The game startSolo leaves: reset, both seats given the one token, active.
soloGame(game, token, t) ==
  LET whitePlayer == createPlayer(<<"web", token, "white">>, token, "web")
      blackPlayer == createPlayer(<<"web", token, "black">>, token, "web")
      seated == assignPlayer(assignPlayer(resetGameState(game), "white", whitePlayer, t),
                             "black", blackPlayer, t)
  IN [seated EXCEPT !.status = "active"]

PostSoloWriting(g, written) ==
  /\ now < MaxClock
  /\ nextToken <= MaxTokens
  /\ now' = now + 1
  /\ nextToken' = nextToken + 1
  /\ req' = [op |-> "solo", gameId |-> g, playerToken |-> 0]
  /\ UNCHANGED calls
  /\ LET game == IF has(games, g) THEN games[g] ELSE createNewGame(now')
     IN games' = set(games, g, soloGame(game, nextToken, now'))
  /\ disk' = fileAfterPersist(games', disk, written)
  /\ ReplyAfterPersist("solo", g, written, [token |-> nextToken])

PostSolo(g) == PostSoloWriting(g, TRUE)

\* ----------------------------------------------------------- frame views
\* renderStatus with a slip: every drawn game is marked finished.
renderStatusFinishes(game) == [game EXCEPT !.status = "finished"]

\* The status the render code of GET / and POST /frame leaves on the game it
\* draws: an active game whose position is terminal is marked finished.
renderStatus(game) ==
  IF game.status = "active" /\ (isCheckmate(game.chess.pos) \/ isDraw(game.chess.pos))
    THEN [game EXCEPT !.status = "finished"]
    ELSE game

\* The labels of the buttons drawn for a game, from its status before the
\* render code's own change of it.
buttonLabels(game) ==
  CASE game.status = "waiting" ->
         <<"Join as White", "Join as Black", "Play Solo", "Open in Browser">>
    [] game.status = "active" ->
         <<"Make Move", "New Game", "Resign", "Open in Browser">>
    [] OTHER -> <<"New Game", "Open in Browser">>

\* whiteName / blackName: the name of the display, or the side's word when
\* the seat is empty.  A frame player's name is 'FID <fid>'; a web player's
\* is the name its request gave.
displayName(display, color) ==
  IF display.source = "none" THEN <<color, 0>>
  ELSE IF display.source = "frame" THEN <<"FID", display.id[2]>>
  ELSE <<"name", 0>>

\* What a frame shows of the game it draws; white and black are the names of
\* the player displays the handler read when the request came in.
frameView(game, whiteDisplay, blackDisplay) ==
  [fen |-> fen(game.chess.pos),
   lastMove |-> game.lastMove,
   status |-> renderStatus(game).status,
   white |-> displayName(whiteDisplay, "white"),
   black |-> displayName(blackDisplay, "black"),
   buttons |-> buttonLabels(game)]

\* ------------------------------------------------------------------ GET /
GetRoot(g) ==
  LET created == ~has(games, g)
      t == now + 1
      gs == getOrCreateGame(games, g, t)
      game == gs[g]
  IN /\ created => now < MaxClock
     /\ now' = IF created THEN t ELSE now
     /\ req' = [op |-> "root", gameId |-> g, playerToken |-> 0]
     /\ UNCHANGED calls
     /\ games' = set(gs, g, renderStatus(game))
     /\ Reply("root", g, "ok",
              frameView(game, getPlayerDisplay(game, "white"),
                        getPlayerDisplay(game, "black")))
     /\ UNCHANGED <<disk, nextToken>>

\* ------------------------------------------------------------ POST /frame
NoText == <<0, 0>>
FrameTexts == {NoText} \cup MoveInputs

\* movePattern: the text is two squares of the board.
matchesMovePattern(inputText) ==
  inputText[1] \in Squares /\ inputText[2] \in Squares

framePlayer(fid) == createPlayer(<<"fid", fid, "none">>, 0, "frame")

\* 'Make Move' of an active game: the game after the typed move was tried.
frameMove(game, inputText) ==
  LET from == inputText[1]
      to == inputText[2]
      piece == pieceAt(game.chess.pos, from)
  IN IF /\ matchesMovePattern(inputText)
        /\ (piece = "none" \/ piece = game.currentPlayer)
        /\ legalMove(game.chess.pos, from, to)
       THEN commitMove(game, from, to)
       ELSE game

\* Whether the pressed button puts a new game under the id (games.set).
frameReplaces(game, buttonIndex) ==
  \/ game.status = "active" /\ buttonIndex = 3
  \/ game.status = "finished" /\ buttonIndex = 1

\* The game object the handler holds after the pressed button was handled
\* (for a replaced game: the old object, which the handler goes on to draw).
frameAction(game, fid, buttonIndex, inputText, t) ==
  IF buttonIndex = 0 THEN game
  ELSE IF game.status = "waiting" THEN
    (CASE buttonIndex = 1 -> assignPlayer(game, "white", framePlayer(fid), t)
       [] buttonIndex = 2 -> assignPlayer(game, "black", framePlayer(fid), t)
       [] buttonIndex = 3 ->
            [assignPlayer(assignPlayer(game, "white", framePlayer(fid), t),
                          "black", framePlayer(fid), t)
               EXCEPT !.status = "active"]
       [] OTHER -> game)
  ELSE IF game.status = "active" THEN
    (CASE buttonIndex = 1 /\ inputText # NoText -> frameMove(game, inputText)
       [] buttonIndex = 4 -> [game EXCEPT !.status = "finished"]
       [] OTHER -> game)
  ELSE game

\* Whether handling the request reads Date.now().
frameReadsClock(gs, g, buttonIndex) ==
  \/ ~has(gs, g)
  \/ /\ has(gs, g)
     /\ \/ gs[g].status = "waiting" /\ buttonIndex \in 1..3
        \/ frameReplaces(gs[g], buttonIndex)

PostFrame(g, fid, buttonIndex, inputText) ==
  LET t == now + 1
      gs == getOrCreateGame(games, g, t)
      game == gs[g]
      whiteDisplay == getPlayerDisplay(game, "white")
      blackDisplay == getPlayerDisplay(game, "black")
      held == frameAction(game, fid, buttonIndex, inputText, t)
      replaced == buttonIndex # 0 /\ frameReplaces(game, buttonIndex)
  IN /\ frameReadsClock(games, g, buttonIndex) => now < MaxClock
     /\ now' = IF frameReadsClock(games, g, buttonIndex) THEN t ELSE now
     /\ held.moveHistory # game.moveHistory => canRecord(game)
     /\ req' = [op |-> "frame", gameId |-> g, playerToken |-> 0]
     /\ UNCHANGED calls
     /\ IF replaced
          THEN /\ games' = set(gs, g, createNewGame(t))
               /\ disk' = persistGamesToDisk(games')
          ELSE /\ games' = set(gs, g, renderStatus(held))
               /\ UNCHANGED disk
     /\ Reply("frame", g, "ok", frameView(held, whiteDisplay, blackDisplay))
     /\ UNCHANGED nextToken

\* ------------------------------------------------------- process restart
\* The process stops and starts again: the map is what loadGamesFromDisk reads.
Restart ==
  /\ games' = loadGamesFromDisk(disk)
  /\ req' = [op |-> "restart", gameId |-> "none", playerToken |-> 0]
  /\ UNCHANGED calls
  /\ res' = NoResponse
  /\ UNCHANGED <<disk, now, nextToken>>

Next ==
  \/ \E g \in GameIds, m \in MoveInputs, playerToken \in TokenInputs :
       PostMove(g, m[1], m[2], playerToken)
  \/ \E g \in GameIds : GetGame(g)
  \/ GetGames
  \/ \E g \in GameIds : GetPgn(g)
  \/ \E g \in GameIds, square \in Squares : GetMoves(g, square)
  \/ \E g \in GameIds : PostApiGames(g)
  \/ \E g \in GameIds, color \in ColorInputs : PostJoin(g, color)
  \/ \E g \in GameIds : PostSolo(g)
  \/ \E g \in GameIds : GetRoot(g)
  \/ \E g \in GameIds, fid \in Fids, buttonIndex \in ButtonInputs,
        inputText \in FrameTexts :
       /\ (inputText # NoText => buttonIndex = 1)
       /\ PostFrame(g, fid, buttonIndex, inputText)

Spec == Init /\ [][Next]_vars

\* The same, with the process stopping and starting again at any moment.
NextWithRestart == Next \/ Restart

SpecRestart == Init /\ [][NextWithRestart]_vars

\* ------------------------------------------------ a damaged games.json
\* A position text chess.load refuses.
InvalidFen == <<0, 0, "w", 0>>

\* Between two runs of the process the file is damaged: the fen of one
\* record is no longer a position; the rest of the record is as written.
Corrupt(g) ==
  /\ g \in DOMAIN disk
  /\ validFen(disk[g].fen)
  /\ disk' = [disk EXCEPT ![g].fen = InvalidFen]
  /\ req' = [op |-> "corrupt", gameId |-> g, playerToken |-> 0]
  /\ UNCHANGED calls
  /\ res' = NoResponse
  /\ UNCHANGED <<games, now, nextToken>>

\* The requests that write the file, the damage, and the restart that reads
\* the file back.
NextWithCorruption ==
  \/ \E g \in GameIds, m \in MoveInputs, playerToken \in TokenInputs :
       PostMove(g, m[1], m[2], playerToken)
  \/ \E g \in GameIds : PostApiGames(g)
  \/ \E g \in GameIds, color \in ColorInputs : PostJoin(g, color)
  \/ \E g \in GameIds : PostSolo(g)
  \/ \E g \in GameIds : Corrupt(g)
  \/ Restart

\* The server's writing requests, with restarts and a file that may be damaged.
SpecCorrupt == Init /\ [][NextWithCorruption]_vars

\* ------------------------------------------------- a file that fails
\* The requests that call persistGamesToDisk, each with a write that goes
\* through or fails, and the read of the game.
NextWithFlushFailure ==
  \/ \E g \in GameIds, m \in MoveInputs, playerToken \in TokenInputs,
        written \in BOOLEAN :
       PostMoveWriting(g, m[1], m[2], playerToken, written)
  \/ \E g \in GameIds, written \in BOOLEAN : PostApiGamesWriting(g, written)
  \/ \E g \in GameIds, color \in ColorInputs, written \in BOOLEAN :
       PostJoinWriting(g, color, written)
  \/ \E g \in GameIds, written \in BOOLEAN : PostSoloWriting(g, written)
  \/ \E g \in GameIds : GetGame(g)

\* The server's writing requests on a file system whose writes may fail.
SpecFlushFails == Init /\ [][NextWithFlushFailure]_vars

\* ------------------------------------------------------------ two games
\* Two game ids.  The handlers treat every id alike, so the requests of the
\* second id are drawn from fewer routes than those of the first; all are
\* drawn from smaller sets: the first move of each side and a request
\* without its from, no token or the first token, the colours white and black.
TwoIds == {"g1", "g2"}
TwoMoves == {<<1, 2>>, <<4, 3>>, <<0, 2>>}
TwoTokens == {0, 1}
TwoTexts == {NoText, <<1, 2>>}

NextTwo ==
  \/ \E g \in TwoIds, m \in TwoMoves, playerToken \in TwoTokens :
       PostMove(g, m[1], m[2], playerToken)
  \/ GetGame("g1")
  \/ GetPgn("g1")
  \/ GetMoves("g1", 1)
  \/ \E g \in TwoIds : PostApiGames(g)
  \/ \E color \in {"white", "black"} : PostJoin("g1", color)
  \/ \E g \in TwoIds : PostSolo(g)
  \/ GetRoot("g1")
  \/ \E fid \in Fids, buttonIndex \in ButtonInputs, inputText \in TwoTexts :
       /\ (inputText # NoText => buttonIndex = 1)
       /\ PostFrame("g1", fid, buttonIndex, inputText)

\* The server with two games in its map.
SpecTwo == Init /\ [][NextTwo]_vars

\* ------------------------------------------- POST /move, step by step
\* Clients send POST /move requests at any time; node's event loop hands each
\* to the handler.  A call is pending until the handler starts, then checked
\* (the 400, 404 and token checks passed), then moved (chess.move accepted
\* the move on the game's board), then done.  `seen` keeps the game as the
\* handler found it when it started.
ConcurrentMoves == {<<1, 2>>, <<4, 3>>, <<2, 1>>, <<0, 2>>}
ConcurrentTokens == {0, 1, 2}

\* loopFree with a slip: a handler is started while another is under way.
loopFreeAlways(cs) == TRUE

\* Whether the event loop can start a handler: no handler is under way.  The
\* handler is one synchronous function (no await, no callback; the file is
\* written with writeFileSync), so it returns before the loop takes the next
\* request.
loopFree(cs) == \A c \in CallIds : cs[c].pc \notin {"checked", "moved"}

\* A client sends a POST /move.
Submit(c, g, from, to, playerToken) ==
  /\ calls[c].pc = "none"
  /\ calls' = [calls EXCEPT ![c] = [NoCall EXCEPT !.pc = "pending",
                                                  !.gameId = g,
                                                  !.from = from,
                                                  !.to = to,
                                                  !.playerToken = playerToken]]
  /\ UNCHANGED <<games, disk, now, nextToken, req, res>>

\* The checks of the handler before it turns to the board.
moveChecks(gs, g, from, to, playerToken) ==
  IF from = 0 \/ to = 0 THEN "MissingFields"
  ELSE IF ~has(gs, g) THEN "NotFound"
  ELSE authorizeMove(gs[g], playerToken)

\* The handler starts on a pending call and runs its checks.
MoveCheck(c) ==
  LET call == calls[c]
      code == moveChecks(games, call.gameId, call.from, call.to, call.playerToken)
  IN /\ call.pc = "pending"
     /\ loopFree(calls)
     /\ calls' = [calls EXCEPT
                    ![c].pc = IF code = "ok" THEN "checked" ELSE "done",
                    ![c].code = IF code = "ok" THEN "none" ELSE code,
                    ![c].seen = IF has(games, call.gameId)
                                  THEN games[call.gameId] ELSE NoCall.seen]
     /\ UNCHANGED <<games, disk, now, nextToken, req, res>>

\* game.chess.move(...): the board of the game takes the move, or refuses it.
MoveConsult(c) ==
  LET call == calls[c]
      g == call.gameId
  IN /\ call.pc = "checked"
     /\ IF legalMove(games[g].chess.pos, call.from, call.to)
          THEN /\ canRecord(games[g])
               /\ games' = set(games, g,
                               [games[g] EXCEPT
                                  !.chess = chessMove(games[g].chess, call.from, call.to)])
               /\ calls' = [calls EXCEPT ![c].pc = "moved"]
          ELSE /\ calls' = [calls EXCEPT ![c].pc = "done", ![c].code = "IllegalMove"]
               /\ UNCHANGED games
     /\ UNCHANGED <<disk, now, nextToken, req, res>>

\* The rest of the handler: the fields of the game are set from the board,
\* the file is written, the answer is sent.
MoveCommit(c) ==
  LET call == calls[c]
      g == call.gameId
      game == games[g]
  IN /\ call.pc = "moved"
     /\ games' = set(games, g,
                     [game EXCEPT
                        !.currentPlayer = game.chess.pos.turn,
                        !.lastMove = [from |-> call.from, to |-> call.to],
                        !.moveHistory = Append(game.moveHistory,
                                               sanOf(call.from, call.to)),
                        !.status = IF isCheckmate(game.chess.pos) \/ isDraw(game.chess.pos)
                                     THEN "finished" ELSE game.status])
     /\ disk' = persistGamesToDisk(games')
     /\ calls' = [calls EXCEPT ![c].pc = "done", ![c].code = "ok"]
     /\ UNCHANGED <<now, nextToken, req, res>>

\* The calls of clients and the steps of their handlers, with the requests
\* that set a game up, each handled when the loop is free.
NextConcurrent ==
  \/ \E c \in CallIds, g \in GameIds, m \in ConcurrentMoves,
        playerToken \in ConcurrentTokens :
       Submit(c, g, m[1], m[2], playerToken)
  \/ \E c \in CallIds : MoveCheck(c)
  \/ \E c \in CallIds : MoveConsult(c)
  \/ \E c \in CallIds : MoveCommit(c)
  \/ \E g \in GameIds : loopFree(calls) /\ PostApiGames(g)
  \/ \E g \in GameIds, color \in {"white", "black"} :
       loopFree(calls) /\ PostJoin(g, color)
  \/ \E g \in GameIds : loopFree(calls) /\ PostSolo(g)

\* The server with POST /move followed statement by statement.
SpecConcurrent == Init /\ [][NextConcurrent]_vars

\* ================================================================ claims
\* Words the claims use, stated on the game records themselves.

\* Some binding of the game carries a token.
TokenBearing(game) ==
  \E c \in {"white", "black"} : playerOf(game, c).token # 0

\* The token is the token of one of the game's bindings.
TokenKnown(game, token) ==
  token # 0 /\ \E c \in {"white", "black"} : playerOf(game, c).token = token

\* The binding of the side whose turn it is.
TurnBinding(game) ==
  IF game.currentPlayer = "w" THEN game.whitePlayer ELSE game.blackPlayer

\* new is old with one move committed.
MoveCommitted(old, new) ==
  /\ Len(new.moveHistory) = Len(old.moveHistory) + 1
  /\ SubSeq(new.moveHistory, 1, Len(old.moveHistory)) = old.moveHistory

\* A move request proper: it carries both squares.
WellFormed(m) == m[1] # 0 /\ m[2] # 0

\* C1 (as claimed): through POST /move and through 'Make Move' of POST
\* /frame, a game that has a token-bearing binding gets a move committed only
\* by a request that presents the token of the binding of the side to move.
C1_MoveNeedsTurnToken ==
  [][\A g \in DOMAIN games :
       ( /\ has(games', g)
         /\ req'.op \in {"move", "frame"}
         /\ TokenBearing(games[g])
         /\ MoveCommitted(games[g], games'[g]) )
       => ( /\ req'.playerToken # 0
            /\ req'.playerToken = TurnBinding(games[g]).token )]_vars

\* C2 (as claimed): POST /move against a game whose status is not active
\* fails and leaves the game as it was.
C2_MoveOnlyWhenActive ==
  [][\A g \in DOMAIN games :
       ( /\ req'.op = "move"
         /\ req'.gameId = g
         /\ games[g].status # "active" )
       => ( /\ res'.code # "ok"
            /\ has(games', g)
            /\ games'[g] = games[g] )]_vars

\* C3: POST /move on a game with a token-bearing binding, with no token or
\* with a token no binding holds, never succeeds and leaves the game
\* (moveHistory, position, turn, lastMove, status) as it was; when the request
\* carries its from and to, the answer is MissingToken (no token) or
\* InvalidToken (unknown token).  (Without from or to the request is refused
\* as malformed before the game is looked up.)
C3_BadTokenRejected ==
  [][\A g \in DOMAIN games :
       ( /\ req'.op = "move" /\ req'.gameId = g
         /\ TokenBearing(games[g])
         /\ ~TokenKnown(games[g], req'.playerToken) )
       => \A m \in MoveInputs :
            PostMove(g, m[1], m[2], req'.playerToken)
            => ( /\ games' = games
                 /\ res'.code \in {"MissingToken", "InvalidToken", "MissingFields"}
                 /\ WellFormed(m)
                    => res'.code = (IF req'.playerToken = 0
                                      THEN "MissingToken" ELSE "InvalidToken") )]_vars

\* C3 witness: a wrong token was just refused on a game that has moves.
C3_Witness ==
  /\ res.op = "move" /\ res.code = "InvalidToken"
  /\ has(games, "g1")
  /\ TokenBearing(games["g1"])
  /\ Len(games["g1"].moveHistory) > 0

\* C4: POST /move with a token some binding holds, but not the binding of the
\* side to move, never succeeds and leaves the game as it was; when the
\* request carries its from and to, the answer is NotYourTurn.  So where only
\* white is bound, right after white's token committed a move, the next move
\* request with that token answers NotYourTurn.
C4_NotYourTurn ==
  [][\A g \in DOMAIN games :
       ( /\ req'.op = "move" /\ req'.gameId = g
         /\ TokenKnown(games[g], req'.playerToken)
         /\ TurnBinding(games[g]).token # req'.playerToken )
       => \A m \in MoveInputs :
            PostMove(g, m[1], m[2], req'.playerToken)
            => ( /\ games' = games
                 /\ res'.code \in {"NotYourTurn", "MissingFields"}
                 /\ WellFormed(m) => res'.code = "NotYourTurn" )]_vars

\* C4, the scenario: only white is bound, white's token has just committed a
\* move, and the very next move request with that token gets NotYourTurn.
C4_WhiteTwice ==
  [][\A g \in DOMAIN games :
       ( /\ req.op = "move" /\ req.gameId = g /\ res.code = "ok"
         /\ req'.op = "move" /\ req'.gameId = g
         /\ games[g].whitePlayer.token # 0
         /\ games[g].blackPlayer = NoPlayer
         /\ req.playerToken = games[g].whitePlayer.token
         /\ req'.playerToken = req.playerToken )
       => \A m \in MoveInputs :
            (WellFormed(m) /\ PostMove(g, m[1], m[2], req'.playerToken))
            => res'.code = "NotYourTurn"]_vars

C4_Theorem == C4_NotYourTurn /\ C4_WhiteTwice

\* C4 witness: only white is bound, one move is in the history, and white's
\* token was just refused with NotYourTurn.
C4_Witness ==
  /\ res.op = "move" /\ res.code = "NotYourTurn"
  /\ has(games, "g1")
  /\ games["g1"].whitePlayer.token = req.playerToken
  /\ games["g1"].blackPlayer = NoPlayer
  /\ Len(games["g1"].moveHistory) = 1

\* C5: when POST /move reaches the oracle and the oracle rejects the move (not
\* a legal move, a square off the board, no piece on from), the answer is
\* IllegalMove and the game is left exactly as it was; an inspect that follows
\* shows just that position, moveHistory, turn, lastMove and status.
C5_IllegalMoveAtomic ==
  [][\A g \in DOMAIN games :
       /\ ( /\ req'.op = "move" /\ req'.gameId = g
            /\ (TokenBearing(games[g]) =>
                  /\ req'.playerToken # 0
                  /\ TurnBinding(games[g]).token = req'.playerToken) )
          => \A m \in MoveInputs :
               ( /\ WellFormed(m)
                 /\ ~legalMove(games[g].chess.pos, m[1], m[2])
                 /\ PostMove(g, m[1], m[2], req'.playerToken) )
               => ( /\ res'.code = "IllegalMove"
                    /\ games' = games )
       /\ ( /\ res.op = "move" /\ res.code = "IllegalMove" /\ res.gameId = g
            /\ GetGame(g) )
          => ( /\ res'.code = "ok"
               /\ res'.body.fen = fen(games[g].chess.pos)
               /\ res'.body.moveHistory = games[g].moveHistory
               /\ res'.body.currentPlayer = games[g].currentPlayer
               /\ res'.body.lastMove = games[g].lastMove
               /\ res'.body.status = games[g].status )]_vars

\* C5 witness: a move was just refused as IllegalMove on a game that already
\* has the move 1-2 in its history.
C5_Witness ==
  /\ res.op = "move" /\ res.code = "IllegalMove"
  /\ has(games, "g1")
  /\ Len(games["g1"].moveHistory) = 1
  /\ games["g1"].lastMove = [from |-> 1, to |-> 2]

\* C6: after a POST /move that answers success, turn is the side to move of
\* the new position as the oracle reports it, moveHistory is the old
\* moveHistory with the move's notation appended, and lastMove is {from, to}
\* of the request.
C6_CommitShape ==
  [][\A g \in DOMAIN games :
       (req'.op = "move" /\ req'.gameId = g /\ res'.code = "ok")
       => \A m \in MoveInputs :
            PostMove(g, m[1], m[2], req'.playerToken)
            => ( /\ games'[g].chess.pos = positionAfter(games[g].chess.pos, m[1], m[2])
                 /\ games'[g].currentPlayer = games'[g].chess.pos.turn
                 /\ games'[g].currentPlayer # games[g].chess.pos.turn
                 /\ games'[g].moveHistory =
                      Append(games[g].moveHistory, sanOf(m[1], m[2]))
                 /\ games'[g].lastMove = [from |-> m[1], to |-> m[2]]
                 /\ res'.body.move.san = sanOf(m[1], m[2]) )]_vars

\* C6 witness: black's move 4-3 was just committed as the second move.
C6_Witness ==
  /\ res.op = "move" /\ res.code = "ok"
  /\ has(games, "g1")
  /\ games["g1"].moveHistory = <<sanOf(1, 2), sanOf(4, 3)>>
  /\ games["g1"].lastMove = [from |-> 4, to |-> 3]
  /\ games["g1"].currentPlayer = "w"

\* C7: POST /move without a token, on a game none of whose bindings carries a
\* token (seats empty or taken through the frame), succeeds whenever the
\* oracle accepts the move.
C7_UntokenedAccepted ==
  [][\A g \in DOMAIN games :
       ( /\ req'.op = "move" /\ req'.gameId = g /\ req'.playerToken = 0
         /\ ~TokenBearing(games[g]) )
       => \A m \in MoveInputs :
            ( /\ legalMove(games[g].chess.pos, m[1], m[2])
              /\ PostMove(g, m[1], m[2], 0) )
            => ( /\ res'.code = "ok"
                 /\ MoveCommitted(games[g], games'[g]) )]_vars

\* C7 witness: an untokened move was just committed on a game whose two seats
\* were taken through the frame.
C7_Witness ==
  /\ req.op = "move" /\ req.playerToken = 0 /\ res.code = "ok"
  /\ has(games, "g1")
  /\ games["g1"].whitePlayer.source = "frame"
  /\ games["g1"].blackPlayer.source = "frame"

\* Both seats of the game are bound to the one token.
SoloBound(game, token) ==
  token # 0 /\ game.whitePlayer.token = token /\ game.blackPlayer.token = token

\* The step puts a fresh game under the id: startSolo, or the frame's new game.
ResetStep(g) ==
  \/ req'.op = "solo" /\ req'.gameId = g
  \/ /\ req'.op = "frame" /\ req'.gameId = g
     /\ has(games', g)
     /\ games'[g].whitePlayer = NoPlayer
     /\ games'[g].blackPlayer = NoPlayer
     /\ games'[g].moveHistory = <<>>

\* C8: the token startSolo returns is bound to both seats; while no reset
\* happens it stays bound to both, and every move the oracle accepts that is
\* presented with it is committed, white's and black's alike.
C8_SoloTokenBothSides ==
  [][\A g \in GameIds :
       /\ (req'.op = "solo" /\ req'.gameId = g)
          => (has(games', g) /\ SoloBound(games'[g], res'.body.token))
       /\ \A token \in 1..MaxTokens :
            (has(games, g) /\ SoloBound(games[g], token))
            => /\ ResetStep(g) \/ (has(games', g) /\ SoloBound(games'[g], token))
               /\ (req'.op = "move" /\ req'.gameId = g /\ req'.playerToken = token)
                  => \A m \in MoveInputs :
                       ( /\ legalMove(games[g].chess.pos, m[1], m[2])
                         /\ PostMove(g, m[1], m[2], token) )
                       => ( /\ res'.code = "ok"
                            /\ MoveCommitted(games[g], games'[g])
                            /\ games'[g].currentPlayer # games[g].currentPlayer )]_vars

\* C8 witness: with the solo token, white's 1-2 and then black's 4-3 were
\* committed.
C8_Witness ==
  /\ req.op = "move" /\ res.code = "ok"
  /\ has(games, "g1")
  /\ SoloBound(games["g1"], req.playerToken)
  /\ games["g1"].moveHistory = <<sanOf(1, 2), sanOf(4, 3)>>

\* C9: whatever the game was before (absent, waiting, active or finished, any
\* bindings, any history), startSolo leaves it with both seats bound to one
\* token that no binding held before, the initial position, white to move,
\* an empty moveHistory, no lastMove, and status active.
C9_SoloResets ==
  [][\A g \in GameIds :
       (req'.op = "solo" /\ req'.gameId = g)
       => /\ res'.code = "ok"
          /\ has(games', g)
          /\ res'.body.token >= nextToken
          /\ nextToken' > res'.body.token
          /\ \A h \in DOMAIN games : ~TokenKnown(games[h], res'.body.token)
          /\ SoloBound(games'[g], res'.body.token)
          /\ games'[g].chess.pos = InitialPosition
          /\ games'[g].currentPlayer = "w"
          /\ games'[g].moveHistory = <<>>
          /\ games'[g].lastMove = NoMove
          /\ games'[g].status = "active"]_vars

\* C9 witness: startSolo has just answered on a game that had token-bearing
\* players before (two tokens were issued earlier).
C9_Witness ==
  /\ req.op = "solo" /\ res.code = "ok"
  /\ res.body.token = 3
  /\ has(games, "g1")
  /\ games["g1"].status = "active"

\* The seats of the game that are free, and whether one is taken.
SeatFree(game, color) == playerOf(game, color) = NoPlayer
OtherSeat(color) == IF color = "white" THEN "black" ELSE "white"

\* A join that fails changes nothing: no binding, status or timestamp, no
\* token issued, nothing written.
JoinFailureChangesNothing ==
  res'.code # "ok" => (games' = games /\ disk' = disk /\ nextToken' = nextToken /\ now' = now)

\* C10 (as claimed): join answers SeatTaken when the asked side is bound,
\* SeatInvalid when the side is not white, black or random, GameFull when both
\* seats are taken and random was asked; a failing join changes nothing.
C10_AsClaimed ==
  [][\A g \in DOMAIN games, color \in ColorInputs :
       (req'.op = "join" /\ req'.gameId = g /\ PostJoin(g, color))
       => /\ (color \in {"white", "black"} /\ ~SeatFree(games[g], color))
             => res'.code = "SeatTaken"
          /\ color \notin {"white", "black", "random"} => res'.code = "SeatInvalid"
          /\ ( /\ color = "random"
               /\ ~SeatFree(games[g], "white") /\ ~SeatFree(games[g], "black") )
             => res'.code = "GameFull"
          /\ JoinFailureChangesNothing]_vars

\* C10 (amended): join answers SeatInvalid when the side is not white, black
\* or random; GameFull when both seats are taken, whichever of white, black
\* or random was asked; SeatTaken when the asked side (white or black) is
\* bound and the other seat is free; a failing join changes nothing.
C10_JoinRefusals ==
  [][\A g \in DOMAIN games, color \in ColorInputs :
       (req'.op = "join" /\ req'.gameId = g /\ PostJoin(g, color))
       => /\ color \notin {"white", "black", "random"} => res'.code = "SeatInvalid"
          /\ ( /\ color \in {"white", "black", "random"}
               /\ ~SeatFree(games[g], "white") /\ ~SeatFree(games[g], "black") )
             => res'.code = "GameFull"
          /\ ( /\ color \in {"white", "black"}
               /\ ~SeatFree(games[g], color)
               /\ SeatFree(games[g], OtherSeat(color)) )
             => res'.code = "SeatTaken"
          /\ JoinFailureChangesNothing]_vars

\* C10 witness: a join was just refused as SeatTaken on a game whose white
\* seat is bound and whose black seat is free.
C10_Witness ==
  /\ req.op = "join" /\ res.code = "SeatTaken"
  /\ has(games, "g1")
  /\ ~SeatFree(games["g1"], "white")
  /\ SeatFree(games["g1"], "black")

\* What a successful join binds: the seat it names was free, now holds a
\* player with the returned token, which no binding held before; the other
\* seat is as it was.
JoinBindsReturnedSeat(g) ==
  LET c == res'.body.color
      token == res'.body.token
  IN /\ c \in {"white", "black"}
     /\ SeatFree(games[g], c)
     /\ token # 0
     /\ ~TokenKnown(games[g], token)
     /\ playerOf(games'[g], c).token = token
     /\ res'.body.player = sanitizePlayer(playerOf(games'[g], c))
     /\ playerOf(games'[g], OtherSeat(c)) = playerOf(games[g], OtherSeat(c))

\* C11 (as claimed): a successful join binds exactly the returned colour (a
\* seat free before) to a new token-bearing player and leaves the other seat
\* untouched; after it the status is active if both seats are bound and
\* waiting if only one is, and the turn is not touched (white on a new game).
C11_JoinActivates ==
  [][\A g \in DOMAIN games :
       (req'.op = "join" /\ req'.gameId = g /\ res'.code = "ok")
       => /\ JoinBindsReturnedSeat(g)
          /\ games'[g].currentPlayer = games[g].currentPlayer
          /\ games'[g].status =
               (IF SeatFree(games'[g], OtherSeat(res'.body.color))
                  THEN "waiting" ELSE "active")]_vars

\* C11 without the status: what a successful join binds, on any game.
C11_JoinBinding ==
  [][\A g \in DOMAIN games :
       (req'.op = "join" /\ req'.gameId = g /\ res'.code = "ok")
       => /\ JoinBindsReturnedSeat(g)
          /\ games'[g].currentPlayer = games[g].currentPlayer
          /\ games[g].status # "finished"
             => games'[g].status =
                  (IF SeatFree(games'[g], OtherSeat(res'.body.color))
                     THEN "waiting" ELSE "active")]_vars

\* Both seats of the game are bound.
BothBound(game) == game.whitePlayer # NoPlayer /\ game.blackPlayer # NoPlayer

\* The oracle reports checkmate or a draw on the game's position.  (A reset
\* puts the initial position back; without one a terminal position stays
\* terminal.)
Terminal(game) == isCheckmate(game.chess.pos) \/ isDraw(game.chess.pos)

\* C12 (as claimed): in every reachable state the status is active if and only
\* if both seats are bound and the oracle has reported no terminal condition
\* since the last reset.
C12_ActiveIff ==
  \A g \in DOMAIN games :
    games[g].status = "active" <=> (BothBound(games[g]) /\ ~Terminal(games[g]))

\* The step is 'Resign' of the frame (buttonIndex 4) on an active game: the
\* frame request that turns active into finished on a position the oracle
\* does not call terminal.
ResignStep(g) ==
  /\ req'.op = "frame" /\ req'.gameId = g
  /\ games[g].status = "active"
  /\ has(games', g)
  /\ games'[g] = [games[g] EXCEPT !.status = "finished"]

\* C12 (amended), the states: an active game has both seats bound and no
\* terminal position; a game with both seats bound and no terminal position
\* is active or finished, never waiting.
C12_ActiveStates ==
  \A g \in DOMAIN games :
    /\ games[g].status = "active" => (BothBound(games[g]) /\ ~Terminal(games[g]))
    /\ (BothBound(games[g]) /\ ~Terminal(games[g]))
       => games[g].status \in {"active", "finished"}

\* C12 (amended), the steps: a game with both seats bound and no terminal
\* position is finished only through a resignation: the only step that makes
\* or leaves such a game finished out of an active one is the frame's resign.
C12_FinishedByResign ==
  [][\A g \in DOMAIN games :
       ( /\ has(games', g)
         /\ games[g].status = "active"
         /\ games'[g].status = "finished"
         /\ BothBound(games'[g]) /\ ~Terminal(games'[g]) )
       => ResignStep(g)]_vars

\* C12 (amended): status is active if and only if both seats are bound, no
\* terminal condition was reported and the game was not resigned since the
\* last reset.
C12_Theorem == []C12_ActiveStates /\ C12_FinishedByResign

\* C12 witness: a resigned game: both seats bound, the position not terminal,
\* one move played, status finished after a frame request.
C12_Witness ==
  /\ req.op = "frame"
  /\ has(games, "g1")
  /\ BothBound(games["g1"])
  /\ ~Terminal(games["g1"])
  /\ Len(games["g1"].moveHistory) = 1
  /\ games["g1"].status = "finished"

\* The place of a status on the line waiting -> active -> finished.
StatusRank(status) ==
  CASE status = "waiting" -> 1
    [] status = "active" -> 2
    [] OTHER -> 3

\* C13: the status of a game never steps back on waiting -> active ->
\* finished (finished never becomes active or waiting, active never becomes
\* waiting) but in a reset step: startSolo, or the frame's new game.
C13_StatusMonotonic ==
  [][\A g \in DOMAIN games :
       ( /\ has(games', g)
         /\ StatusRank(games'[g].status) < StatusRank(games[g].status) )
       => ResetStep(g)]_vars

\* C13 witness: a join has just bound a seat of a finished game, and the game
\* is still finished.
C13_Witness ==
  /\ req.op = "join" /\ res.code = "ok"
  /\ has(games, "g1")
  /\ games["g1"].status = "finished"
  /\ BothBound(games["g1"])

\* C14: in every state reached through create, lazy creation, join,
\* startSolo, POST /move and the frame's buttons, the game's turn field
\* (currentPlayer) is the side to move of the game's position.
C14_TurnMirrorsPosition ==
  \A g \in DOMAIN games : games[g].currentPlayer = games[g].chess.pos.turn

\* C14 witness: the frame's 'Make Move' has just committed white's first move:
\* black is to move on the board and in the turn field.
C14_Witness ==
  /\ req.op = "frame"
  /\ has(games, "g1")
  /\ Len(games["g1"].moveHistory) = 1
  /\ games["g1"].chess.pos.turn = "b"
  /\ games["g1"].currentPlayer = "b"

\* C15, the steps: every step leaves a game's moveHistory as it was, appends
\* exactly one notation to it (a move committed by POST /move or by the
\* frame), or clears it in a reset (startSolo, the frame's new game).
C15_AppendOnly ==
  [][\A g \in DOMAIN games :
       has(games', g)
       => \/ games'[g].moveHistory = games[g].moveHistory
          \/ /\ MoveCommitted(games[g], games'[g])
             /\ req'.op \in {"move", "frame"}
             /\ games'[g].chess.pos.half = games[g].chess.pos.half + 1
          \/ /\ games'[g].moveHistory = <<>>
             /\ games'[g].chess.pos = InitialPosition
             /\ ResetStep(g)]_vars

\* C15, the states: the length of moveHistory is the number of moves made on
\* the game's board since it was last set up, as the oracle counts them.
C15_LengthIsMoveCount ==
  \A g \in DOMAIN games :
    /\ Len(games[g].moveHistory) = games[g].chess.pos.half
    /\ games[g].moveHistory = games[g].chess.history

\* C15: moveHistory is append-only, and its length is the number of moves
\* committed since the last reset.
C15_Theorem == []C15_LengthIsMoveCount /\ C15_AppendOnly

\* C15 witness: a game set up anew by a second token issue, a startSolo, that
\* holds the three moves committed since.
C15_Witness ==
  /\ has(games, "g1")
  /\ now >= 3
  /\ Len(games["g1"].moveHistory) = 3
  /\ games["g1"].chess.pos.half = 3
  /\ SoloBound(games["g1"], 2)

\* The file holds, for every game of the map, a record with the game's
\* players, turn, lastMove, status, moveHistory and serialized position.
SnapshotHolds(gs, d) ==
  \A g \in DOMAIN gs :
    /\ g \in DOMAIN d
    /\ d[g].whitePlayer = gs[g].whitePlayer
    /\ d[g].blackPlayer = gs[g].blackPlayer
    /\ d[g].currentPlayer = gs[g].currentPlayer
    /\ d[g].lastMove = gs[g].lastMove
    /\ d[g].status = gs[g].status
    /\ d[g].moveHistory = gs[g].moveHistory
    /\ d[g].fen = fen(gs[g].chess.pos)

\* C16 (as claimed): after every request that changed a game in memory
\* (create, lazy creation, join, startSolo, a committed move, the frame's
\* join, solo, move, new game and resign), with no write failing, the file
\* holds a record equal to the game in memory for every game id.
C16_SnapshotAfterMutation ==
  [][games' # games => SnapshotHolds(games', disk')]_vars

\* What does hold: the requests that write the file (create, a successful
\* join, startSolo, a committed POST /move, the frame's new game) leave it
\* equal to the map.
C16_FlushingRequests ==
  [][( \/ req'.op \in {"create", "solo"}
       \/ req'.op \in {"join", "move"} /\ res'.code = "ok"
       \/ disk' # disk )
     => SnapshotHolds(games', disk')]_vars

\* The games of new are the games of old, each with the same position,
\* status, turn, moveHistory, lastMove and bindings (tokens included).
SameSessions(old, new) ==
  /\ DOMAIN new = DOMAIN old
  /\ \A g \in DOMAIN old :
       /\ new[g].chess.pos = old[g].chess.pos
       /\ new[g].status = old[g].status
       /\ new[g].currentPlayer = old[g].currentPlayer
       /\ new[g].moveHistory = old[g].moveHistory
       /\ new[g].lastMove = old[g].lastMove
       /\ new[g].whitePlayer = old[g].whitePlayer
       /\ new[g].blackPlayer = old[g].blackPlayer

\* C17, on every reachable map: writing it with persistGamesToDisk and
\* reading the file into an empty map with loadGamesFromDisk gives the same
\* sessions back.
C17_RoundTrip ==
  SameSessions(games, loadGamesFromDisk(persistGamesToDisk(games)))

\* C17, on the restart itself: a process that starts again when the file is
\* the snapshot of its map holds, after loadGamesFromDisk, the sessions it
\* held before.
C17_RestartAfterFlush ==
  [][(req'.op = "restart" /\ disk = persistGamesToDisk(games))
     => SameSessions(games, games')]_vars

\* C17: snapshot, then restore into an empty store, gives for every id a
\* session with the position, status, turn, moveHistory, lastMove and
\* bindings it had.
C17_Theorem == []C17_RoundTrip /\ C17_RestartAfterFlush

\* C17 witness: a restarted process holds a token-bound game with two moves,
\* black's 4-3 the last, read back from the file.
C17_Witness ==
  /\ req.op = "restart"
  /\ has(games, "g1")
  /\ disk = persistGamesToDisk(games)
  /\ TokenBearing(games["g1"])
  /\ games["g1"].status = "active"
  /\ games["g1"].moveHistory = <<sanOf(1, 2), sanOf(4, 3)>>
  /\ games["g1"].chess.pos = [w |-> 2, b |-> 3, turn |-> "w", half |-> 2]
  /\ games["g1"].chess.history = <<>>

\* C18 (as claimed): a process that starts on a file with a record whose
\* position text is invalid keeps the record: the game is loaded with the
\* initial position and is consistent, its turn the side to move of that
\* position and its moveHistory as long as the moves that led to it.
C18_RestoreConsistent ==
  [][req'.op = "restart"
     => \A g \in DOMAIN disk :
          ~validFen(disk[g].fen)
          => /\ has(games', g)
             /\ games'[g].chess.pos = InitialPosition
             /\ games'[g].currentPlayer = games'[g].chess.pos.turn
             /\ Len(games'[g].moveHistory) = games'[g].chess.pos.half]_vars

\* What does hold of such a record: it is kept, and its board is the initial
\* position.
C18_RestoreKeepsRecord ==
  [][req'.op = "restart"
     => \A g \in DOMAIN disk :
          ~validFen(disk[g].fen)
          => /\ has(games', g)
             /\ games'[g].chess.pos = InitialPosition
             /\ games'[g].currentPlayer = disk[g].currentPlayer
             /\ games'[g].moveHistory = disk[g].moveHistory
             /\ games'[g].status = disk[g].status]_vars

\* C19, the writing requests: when the write of persistGamesToDisk fails in
\* create, join, startSolo or POST /move, the file is as it was, the answer
\* is the one the handler had decided on (success where the request was
\* accepted), and the change of the game in memory is made.
C19_FlushFailureSwallowed ==
  [][\A g \in GameIds :
       /\ (req'.op = "create" /\ req'.gameId = g /\ PostApiGamesWriting(g, FALSE))
          => /\ res'.code = "ok"
             /\ has(games', g)
             /\ games'[g] = createNewGame(now')
             /\ disk' = disk
       /\ (req'.op = "solo" /\ req'.gameId = g /\ PostSoloWriting(g, FALSE))
          => /\ res'.code = "ok"
             /\ has(games', g)
             /\ SoloBound(games'[g], res'.body.token)
             /\ games'[g].status = "active"
             /\ disk' = disk
       /\ (req'.op = "join" /\ req'.gameId = g)
          => \A color \in ColorInputs :
               PostJoinWriting(g, color, FALSE)
               => /\ res'.code \in {joinRefusal(games, g, color), "SeatTaken"}
                  /\ ( /\ joinRefusal(games, g, color) = "ok"
                       /\ color = "random" \/ SeatFree(games[g], color) )
                     => ( /\ res'.code = "ok"
                          /\ JoinBindsReturnedSeat(g) )
                  /\ disk' = disk
       /\ (req'.op = "move" /\ req'.gameId = g)
          => \A m \in MoveInputs :
               PostMoveWriting(g, m[1], m[2], req'.playerToken, FALSE)
               => /\ res'.code = moveOutcome(games, g, m[1], m[2], req'.playerToken)
                  /\ res'.code = "ok"
                     => ( /\ games'[g] = commitMove(games[g], m[1], m[2])
                          /\ res'.body.moveHistory = games'[g].moveHistory
                          /\ res'.body.fen = fen(games'[g].chess.pos)
                          /\ res'.body.status = games'[g].status )
                  /\ disk' = disk]_vars

\* C19, the reads that follow: GET /game/:gameId answers from the map,
\* whatever the file holds.
C19_ReadsSeeMemory ==
  [][\A g \in DOMAIN games :
       (req'.op = "inspect" /\ req'.gameId = g)
       => /\ res'.code = "ok"
          /\ res'.body.fen = fen(games[g].chess.pos)
          /\ res'.body.status = games[g].status
          /\ res'.body.moveHistory = games[g].moveHistory
          /\ res'.body.players.white = sanitizePlayer(games[g].whitePlayer)
          /\ res'.body.players.black = sanitizePlayer(games[g].blackPlayer)]_vars

\* C19: a failing write never changes the outcome of create, join, startSolo
\* or POST /move: the same answer, the game changed in memory, and the change
\* seen by the reads that follow.
C19_Theorem == C19_FlushFailureSwallowed /\ C19_ReadsSeeMemory

\* C19 witness: no write has gone through (the file has no record of the
\* game), and GET /game/:gameId shows the game with its two players and the
\* move committed in memory.
C19_Witness ==
  /\ req.op = "inspect" /\ res.code = "ok"
  /\ has(games, "g1")
  /\ ~has(disk, "g1")
  /\ BothBound(games["g1"])
  /\ res.body.moveHistory = <<sanOf(1, 2)>>
  /\ games["g1"].moveHistory = <<sanOf(1, 2)>>

\* The tokens a reader gets out of a player display: the id of a web player
\* is '<token>-<color>', so the display shows the player's token.
tokensOfDisplay(display) ==
  IF display.id[1] = "web" THEN {display.id[2]} ELSE {}

\* The tokens a reader gets out of a response.  The frame (names, position,
\* buttons), the list of games, and the answers of create and POST /move
\* carry no player id and no token field.
tokensIn(r) ==
  IF r.code # "ok" THEN {}
  ELSE CASE r.op = "inspect" ->
              tokensOfDisplay(r.body.players.white)
                \cup tokensOfDisplay(r.body.players.black)
         [] r.op = "join" -> {r.body.token} \cup tokensOfDisplay(r.body.player)
         [] r.op = "solo" -> {r.body.token}
         [] OTHER -> {}

\* The tokens of the bindings of all games.
BoundTokens ==
  {playerOf(games[g], c).token : g \in DOMAIN games, c \in {"white", "black"}} \ {0}

\* C20 (as claimed): no answer of GET /game/:gameId, GET /games, GET / or
\* POST /frame holds the token of a binding; an answer holds a token only if
\* it is the answer of the join or startSolo that issued that token.
C20_ReadPathsHideTokens ==
  /\ res.op \in {"inspect", "games", "root", "frame"}
     => tokensIn(res) \cap BoundTokens = {}
  /\ tokensIn(res) # {}
     => /\ res.op \in {"join", "solo"}
        /\ tokensIn(res) = {nextToken - 1}

\* What does hold: the answers of GET /games, GET / and POST /frame hold no
\* token, and join and startSolo answer with the token they issued alone.
C20_ListAndFrameHideTokens ==
  /\ res.op \in {"games", "root", "frame", "move", "create"} => tokensIn(res) = {}
  /\ (res.op \in {"join", "solo"} /\ res.code = "ok")
     => tokensIn(res) = {nextToken - 1}

\* C21: getOrCreateGame on an id the map holds returns the map as it is, the
\* game under the id untouched (status, position, bindings, history); on a
\* new id it adds exactly one new game, and a second call then changes
\* nothing.  So GET / on a game that exists leaves the map as it was, and so
\* does a GET / that follows a GET / of the same id.
C21_GetOrCreateIdempotent ==
  [][\A g \in GameIds :
       (req'.op \in {"root", "frame"} /\ req'.gameId = g)
       => LET gs == getOrCreateGame(games, g, now + 1)
          IN /\ has(games, g) => gs = games
             /\ ~has(games, g)
                => ( /\ DOMAIN gs = DOMAIN games \cup {g}
                     /\ gs[g] = createNewGame(now + 1)
                     /\ \A h \in DOMAIN games : gs[h] = games[h] )
             /\ getOrCreateGame(gs, g, now + 2) = gs
             /\ has(games', g)
             /\ (req'.op = "root" /\ has(games, g)) => games' = games
             /\ (req'.op = "root" /\ req.op = "root" /\ req.gameId = g)
                => games' = games]_vars

\* C21 witness: GET / has just drawn a game that holds two moves and two
\* token-bearing players.
C21_Witness ==
  /\ req.op = "root"
  /\ has(games, "g1")
  /\ Len(games["g1"].moveHistory) = 2
  /\ games["g1"].whitePlayer.token # 0
  /\ games["g1"].blackPlayer.token # 0
  /\ games["g1"].status = "active"

\* C22: join, POST /move, GET /game/:gameId, the pgn and the valid-moves
\* requests for an id the map does not hold answer NotFound, put no game
\* under the id and leave the map, the file and the token source as they
\* were.  (A POST /move without its from or to is refused as malformed before
\* the id is looked up; it changes nothing either.)
C22_UnknownIdNotFound ==
  [][\A g \in TwoIds :
       ( /\ ~has(games, g)
         /\ req'.gameId = g
         /\ req'.op \in {"join", "move", "inspect", "pgn", "moves"} )
       => /\ games' = games
          /\ disk' = disk
          /\ nextToken' = nextToken
          /\ res'.code \in {"NotFound", "MissingFields"}
          /\ req'.op # "move" => res'.code = "NotFound"
          /\ req'.op = "move"
             => \A m \in TwoMoves :
                  (WellFormed(m) /\ PostMove(g, m[1], m[2], req'.playerToken))
                  => res'.code = "NotFound"]_vars

\* C22 witness: a POST /move for g1 was just answered NotFound while the map
\* holds the other game, g2, with a move played.
C22_Witness ==
  /\ req.op = "move" /\ req.gameId = "g1" /\ res.code = "NotFound"
  /\ ~has(games, "g1")
  /\ has(games, "g2")
  /\ Len(games["g2"].moveHistory) = 1

\* The position, turn, moveHistory, lastMove, status or a binding of the game
\* differs between old and new.
SessionChanged(old, new) ==
  \/ new.chess.pos # old.chess.pos
  \/ new.currentPlayer # old.currentPlayer
  \/ new.moveHistory # old.moveHistory
  \/ new.lastMove # old.lastMove
  \/ new.status # old.status
  \/ new.whitePlayer # old.whitePlayer
  \/ new.blackPlayer # old.blackPlayer

\* C23 (as claimed): whenever a request changes a game's position, turn,
\* moveHistory, lastMove, status or bindings, the game's updatedAt after it is
\* later than before.
C23_UpdatedAtRefreshed ==
  [][\A g \in DOMAIN games :
       (has(games', g) /\ SessionChanged(games[g], games'[g]))
       => games'[g].updatedAt > games[g].updatedAt]_vars

\* What does hold: the requests that seat a player or put a new game under
\* the id (join, startSolo, the frame's join, solo and new game) set updatedAt
\* to the time of the request.
C23_SeatingRefreshes ==
  [][\A g \in DOMAIN games :
       ( /\ has(games', g)
         /\ \/ games'[g].whitePlayer # games[g].whitePlayer
            \/ games'[g].blackPlayer # games[g].blackPlayer )
       => ( /\ games'[g].updatedAt = now'
            /\ games'[g].updatedAt > games[g].updatedAt )]_vars

\* The handler of call c is under way: started and not yet returned.
UnderWay(c) == calls[c].pc \in {"checked", "moved"}

\* Calls c and d carry the same request.
SameMove(c, d) ==
  /\ calls[c].gameId = calls[d].gameId
  /\ calls[c].from = calls[d].from
  /\ calls[c].to = calls[d].to

\* No two POST /move handlers are under way together.
C24_OneHandlerAtATime ==
  \A c, d \in CallIds : (UnderWay(c) /\ UnderWay(d)) => c = d

\* While a handler is under way nothing else changes the games, and when it
\* returns it has done to the game it found what the one-step POST /move does:
\* the answer is moveOutcome on that game, and an accepted move leaves
\* commitMove of that game in the map and in the file.
C24_HandlerIsOneStep ==
  [][\A c \in CallIds :
       LET call == calls[c]
           g == call.gameId
       IN /\ (call.pc = "checked" /\ calls'[c].pc = "checked") => games' = games
          /\ (call.pc = "moved" /\ calls'[c].pc = "moved") => games' = games
          /\ (call.pc = "pending" /\ calls'[c].pc = "done")
             => /\ calls'[c].code = moveOutcome(games, g, call.from, call.to,
                                                call.playerToken)
                /\ games' = games
          /\ (call.pc = "checked" /\ calls'[c].pc = "done")
             => /\ games[g] = call.seen
                /\ calls'[c].code = moveOutcome(games, g, call.from, call.to,
                                                call.playerToken)
                /\ calls'[c].code = "IllegalMove"
                /\ games' = games
          /\ (call.pc = "moved" /\ calls'[c].pc = "done")
             => /\ moveOutcome(set(games, g, call.seen), g, call.from, call.to,
                               call.playerToken) = "ok"
                /\ calls'[c].code = "ok"
                /\ games' = set(games, g, commitMove(call.seen, call.from, call.to))
                /\ disk' = persistGamesToDisk(games')]_vars

\* Two accepted moves on one game were never made against the same record of
\* it, and of two calls with the same move the one that found the game as the
\* other's accepted move left it was refused.
C24_SameMoveOnce ==
  \A c, d \in CallIds :
    ( /\ c # d
      /\ calls[c].pc = "done" /\ calls[c].code = "ok"
      /\ calls[d].pc = "done"
      /\ calls[c].gameId = calls[d].gameId )
    => /\ calls[d].code = "ok" => calls[d].seen # calls[c].seen
       /\ ( /\ SameMove(c, d)
            /\ calls[d].seen = commitMove(calls[c].seen, calls[c].from, calls[c].to) )
          => calls[d].code # "ok"

\* C24: each POST /move runs as one step; two on the same game are handled one
\* after the other; of two requests with the same legal move sent against one
\* position, one is committed against it and the other is judged against the
\* position that commit left.
C24_Theorem ==
  /\ []C24_OneHandlerAtATime
  /\ C24_HandlerIsOneStep
  /\ []C24_SameMoveOnce

\* C24 witness: two calls with the same move 1-2 are done; one was accepted on
\* a game with no move yet, the other found the game as that move left it and
\* was refused as illegal.
C24_Witness ==
  /\ SameMove(1, 2)
  /\ calls[1].from = 1 /\ calls[1].to = 2
  /\ calls[1].pc = "done" /\ calls[1].code = "ok"
  /\ calls[1].seen.moveHistory = <<>>
  /\ calls[2].pc = "done" /\ calls[2].code = "IllegalMove"
  /\ calls[2].seen = commitMove(calls[1].seen, 1, 2)
  /\ has(games, "g1") /\ games["g1"] = calls[2].seen

\* C25: a request for one id leaves the game under every other id as it was,
\* and no request takes an id out of the map.
C25_SessionsIndependent ==
  [][ /\ \A a, b \in TwoIds :
           (a # b /\ req'.gameId = a /\ has(games, b))
           => (has(games', b) /\ games'[b] = games[b])
      /\ DOMAIN games \subseteq DOMAIN games' ]_vars

\* C25 witness: the frame's resign was just handled for g1, which is finished
\* with its move kept, while g2 holds its own game with one move, still active.
C25_Witness ==
  /\ req.op = "frame" /\ req.gameId = "g1"
  /\ has(games, "g1") /\ has(games, "g2")
  /\ games["g1"].status = "finished"
  /\ Len(games["g1"].moveHistory) = 1
  /\ games["g2"].status = "active"
  /\ Len(games["g2"].moveHistory) = 1

\* The game holds no move: empty moveHistory, no lastMove, the initial position.
FreshBoard(game) ==
  /\ game.moveHistory = <<>>
  /\ game.lastMove = NoMove
  /\ game.chess.pos = InitialPosition

\* C26 (as claimed): startSolo, the frame's 'Play Solo' (buttonIndex 3 on a
\* waiting game) and the frame's 'New Game' leave a game with empty
\* moveHistory, no lastMove, the initial position, and no binding but the ones
\* the request assigns: the one token on both seats, the frame player on both
\* seats, no player at all.
C26_ResetsLeaveFreshGame ==
  [][\A g \in GameIds :
       /\ (req'.op = "solo" /\ req'.gameId = g)
          => /\ has(games', g)
             /\ FreshBoard(games'[g])
             /\ SoloBound(games'[g], res'.body.token)
       /\ \A fid \in Fids, buttonIndex \in ButtonInputs, inputText \in FrameTexts :
            LET game == getOrCreateGame(games, g, now + 1)[g] IN
            /\ (PostFrame(g, fid, buttonIndex, inputText)
                /\ game.status = "waiting" /\ buttonIndex = 3)
               => /\ FreshBoard(games'[g])
                  /\ games'[g].whitePlayer = framePlayer(fid)
                  /\ games'[g].blackPlayer = framePlayer(fid)
            /\ (PostFrame(g, fid, buttonIndex, inputText)
                /\ buttonIndex # 0 /\ frameReplaces(game, buttonIndex))
               => /\ FreshBoard(games'[g])
                  /\ games'[g].whitePlayer = NoPlayer
                  /\ games'[g].blackPlayer = NoPlayer]_vars

\* The step is a read: GET / of a game the map holds, GET /game/:gameId,
\* GET /games, the pgn or the valid-moves request.
ReadStep ==
  \/ req'.op = "root" /\ has(games, req'.gameId)
  \/ req'.op \in {"inspect", "games", "pgn", "moves"}

\* C27: a read leaves the status, position, turn, moveHistory, lastMove and
\* bindings of every game as they were, and the map with the same ids, in
\* every state the server reaches, a restart from the file included.
C27_ReadsChangeNothing ==
  [][ReadStep
      => /\ DOMAIN games' = DOMAIN games
         /\ \A g \in DOMAIN games : ~SessionChanged(games[g], games'[g])]_vars

\* C27 witness: GET / was just answered for an active game read back from the
\* file by a restart (its Chess object holds no move of its own) with two
\* moves in its moveHistory.
C27_Witness ==
  /\ req.op = "root" /\ res.code = "ok"
  /\ has(games, "g1")
  /\ games["g1"].status = "active"
  /\ Len(games["g1"].moveHistory) = 2
  /\ games["g1"].chess.history = <<>>
  /\ res.body.status = "active"

\* C28 (as claimed): on an active game the frame request with buttonIndex i
\* does what the i-th label drawn for the game says: 'Resign' leaves the game
\* finished with its history and players, 'New Game' puts a fresh waiting
\* game under the id, 'Make Move' tries the typed move.
C28_ButtonDoesItsLabel ==
  [][\A g \in GameIds :
       (req'.op = "frame" /\ req'.gameId = g /\ has(games, g))
       => \A fid \in Fids, buttonIndex \in 1..4, inputText \in FrameTexts :
            LET game == games[g]
                label == buttonLabels(game)[buttonIndex]
            IN (game.status = "active" /\ PostFrame(g, fid, buttonIndex, inputText))
               => /\ label = "Resign"
                     => games'[g] = [game EXCEPT !.status = "finished"]
                  /\ label = "New Game"
                     => games'[g] = createNewGame(now')
                  /\ label = "Make Move"
                     => games'[g] = renderStatus(frameMove(game, inputText))]_vars

\* C29 (as claimed): a seat that holds a player keeps that player through
\* every request but a reset (startSolo or a new game under the id); neither
\* the web join nor the frame's 'Join as White', 'Join as Black' or 'Play
\* Solo' puts another player on it, and a player with a token is never
\* replaced by one without.
C29_BoundSeatKept ==
  [][\A g \in DOMAIN games : \A color \in {"white", "black"} :
       ( /\ playerOf(games[g], color) # NoPlayer
         /\ has(games', g)
         /\ playerOf(games'[g], color) # playerOf(games[g], color) )
       => ResetStep(g)]_vars

\* C30 (as claimed): the view a POST /frame request answers with shows the
\* game the map holds under the id when the request is done: its status,
\* position, last move and the names of its players, after 'New Game' too.
C30_FrameShowsStoredGame ==
  [][\A g \in GameIds :
       (req'.op = "frame" /\ req'.gameId = g)
       => LET stored == games'[g] IN
          /\ res'.body.status = stored.status
          /\ res'.body.fen = fen(stored.chess.pos)
          /\ res'.body.lastMove = stored.lastMove
          /\ res'.body.white = displayName(getPlayerDisplay(stored, "white"), "white")
          /\ res'.body.black = displayName(getPlayerDisplay(stored, "black"), "black")]_vars

\* The tokens the server can have issued.
Tokens == 1..MaxTokens

\* The sides of the game under g that token may move for.
sidesOf(gs, g, token) ==
  IF has(gs, g) THEN allowedColors(gs[g], token) ELSE {}

\* The request that has just been answered issued token.
Issued(token) == token = nextToken /\ nextToken' = nextToken + 1

\* After startSolo or a new game under the id, no token issued before holds a
\* side of the game: a move that presents one is refused as InvalidToken, or
\* the game asks for no token at all.
C31_ResetDropsTokens ==
  [][\A g \in TwoIds : ResetStep(g)
       => \A token \in Tokens : token < nextToken
            => /\ sidesOf(games', g, token) = {}
               /\ \/ authorizeMove(games'[g], token) = "InvalidToken"
                  \/ ~hasWebPlayers(games'[g])]_vars

\* A token holds no side but the ones it was issued for: no request gives a
\* token issued earlier a side it did not hold.
C31_NoSideGained ==
  [][\A g \in TwoIds, token \in Tokens :
       ~Issued(token) => sidesOf(games', g, token) \subseteq sidesOf(games, g, token)]_vars

\* The token a join returns holds the returned side of the joined game and
\* nothing else; the token startSolo returns holds both sides of its game and
\* nothing else.
C31_IssuedScope ==
  [][\A g \in TwoIds :
       /\ (req'.op = "join" /\ req'.gameId = g /\ res'.code = "ok")
          => /\ Issued(res'.body.token)
             /\ sidesOf(games', g, res'.body.token) = {res'.body.color}
             /\ \A h \in TwoIds \ {g} : sidesOf(games', h, res'.body.token) = {}
       /\ (req'.op = "solo" /\ req'.gameId = g)
          => /\ Issued(res'.body.token)
             /\ sidesOf(games', g, res'.body.token) = {"white", "black"}
             /\ \A h \in TwoIds \ {g} : sidesOf(games', h, res'.body.token) = {}]_vars

\* C31: tokens do not survive a reset, a join's token is good for one side of
\* one game and a startSolo's token for both sides of one game.
C31_Theorem == C31_ResetDropsTokens /\ C31_NoSideGained /\ C31_IssuedScope

\* C31 witness: startSolo was just answered for g1 with the third token, which
\* holds both sides of g1 and none of g2; neither of the two tokens issued
\* before holds a side of g1; g2 is held on both sides by the second token.
C31_Witness ==
  /\ req.op = "solo" /\ req.gameId = "g1" /\ res.code = "ok"
  /\ res.body.token = 3
  /\ sidesOf(games, "g1", 3) = {"white", "black"}
  /\ sidesOf(games, "g1", 1) = {} /\ sidesOf(games, "g1", 2) = {}
  /\ has(disk, "g1") /\ has(games, "g2")
  /\ sidesOf(games, "g2", 2) = {"white", "black"}
  /\ sidesOf(games, "g2", 3) = {}

\* C32 (as claimed): the moves GET /game/:gameId/pgn answers with are the
\* game's moveHistory, in the same order, in every state the server reaches,
\* a restart from the file included.
C32_PgnIsMoveHistory ==
  [][\A g \in GameIds :
       (req'.op = "pgn" /\ req'.gameId = g /\ res'.code = "ok")
       => res'.body = games'[g].moveHistory]_vars

====
